---------------------------- MODULE Spec2Model ----------------------------
(***************************************************************************)
(* ITracker: the in-memory Timer (src/src/timer.rs) and the block-format   *)
(* log file it appends to (Timer::log_task) and that src/src/log.rs reads  *)
(* (read_logs_from_file) and edits (delete_log_entry).                     *)
(*                                                                         *)
(* Time is a count of whole seconds on the wall clock.  Option<T> is a     *)
(* sequence of length 0 (None) or 1 (Some).  A line of the log file is a   *)
(* record [lead, toks]: the number of leading spaces and the whitespace-   *)
(* separated tokens, a token being a sequence of atoms (a word, one digit  *)
(* or one dash), so that starts_with, trim, split_whitespace, parse and    *)
(* format are computed on the text and not assumed.                        *)
(***************************************************************************)
EXTENDS Integers, Sequences

VARIABLES
    start_time,      \* Timer.start_time : Option<SystemTime>
    stop_time,       \* Timer.stop_time : Option<SystemTime>
    pause_duration,  \* Timer.pause_duration : Duration (seconds)
    task_logs,       \* Timer.task_logs : Vec<TaskLog>
    daily_log,       \* Timer.daily_log : HashMap<NaiveDate, Duration>
    now,             \* SystemTime::now()
    file_exists,     \* the output file exists
    file_lines,      \* its lines
    csv_exists,      \* the file given to export_logs_to_csv exists
    csv_lines,       \* its lines
    op,              \* the call that has just returned
    result,          \* what it returned: "Unit", "Ok" or "Err"
    ret,             \* Option of the number it returned or computed
    started,         \* history: start has been called on this timer
    paused_at,       \* history: Some(clock) of the pause that is in effect
    paused_total,    \* history: sum of (resume time - pause time) since start
    started_at,      \* history: Some(clock) of the last call of start
    last_assigned    \* history: the index the last log_task wrote, 0 before

timer == <<start_time, stop_time, pause_duration>>
hist == <<started, paused_at, paused_total, started_at>>
file == <<file_exists, file_lines>>
csv == <<csv_exists, csv_lines>>
vars == <<start_time, stop_time, pause_duration, task_logs, daily_log, now,
          file_exists, file_lines, csv_exists, csv_lines, op, result, ret,
          started, paused_at, paused_total, started_at, last_assigned>>

\* ------------------------------------------------------------- bounds
MaxClock == 3
MaxLogTasks == 3
MaxDailyTotal == 3
MaxCsvLines == 4

\* ------------------------------------------------------------- Option
None == <<>>
Some(x) == <<x>>
IsSome(o) == Len(o) = 1
Unwrap(o) == o[1]

\* SystemTime::duration_since(earlier).unwrap_or_default()
DurationSince(later, earlier) == IF later >= earlier THEN later - earlier ELSE 0

\* ------------------------------------------------------------- Timer
\* Timer::new()
Init ==
    /\ start_time = None
    /\ stop_time = None
    /\ pause_duration = 0
    /\ task_logs = <<>>
    /\ daily_log = <<>>
    /\ now = 0
    /\ file_exists = FALSE
    /\ file_lines = <<>>
    /\ csv_exists = FALSE
    /\ csv_lines = <<>>
    /\ op = "new"
    /\ result = "Unit"
    /\ ret = None
    /\ started = FALSE
    /\ paused_at = None
    /\ paused_total = 0
    /\ started_at = None
    /\ last_assigned = 0

\* the process runs until a panic ends it
Alive == result # "Panic"

\* the wall clock advances by one second
Tick ==
    /\ Alive
    /\ now < MaxClock
    /\ now' = now + 1
    /\ UNCHANGED <<timer, task_logs, daily_log, file, csv, op, result, ret, hist,
                   last_assigned>>

\* Timer::start
Start ==
    /\ Alive
    /\ start_time' = Some(now)
    /\ pause_duration' = 0
    /\ op' = "start"
    /\ result' = "Unit"
    /\ ret' = None
    /\ started' = TRUE
    /\ paused_at' = None
    /\ paused_total' = 0
    /\ started_at' = Some(now)
    /\ UNCHANGED <<stop_time, task_logs, daily_log, now, file, csv, last_assigned>>

\* Timer::stop
Stop ==
    /\ Alive
    /\ stop_time' = Some(now)
    /\ op' = "stop"
    /\ result' = "Unit"
    /\ ret' = None
    /\ UNCHANGED <<start_time, pause_duration, task_logs, daily_log, now, file, csv,
                   hist, last_assigned>>

\* a pause that overwrites the accumulator instead of adding to it
PauseAccumulate_Overwrite(acc, start) == DurationSince(now, start)

\* pause_duration after Timer::pause on a timer whose start_time is Some(start)
PauseAccumulate(acc, start) == acc + DurationSince(now, start)

\* Timer::pause
Pause ==
    /\ Alive
    /\ IF IsSome(start_time)
         THEN /\ pause_duration' = PauseAccumulate(pause_duration, Unwrap(start_time))
              /\ start_time' = None
              /\ paused_at' = Some(now)
         ELSE UNCHANGED <<pause_duration, start_time, paused_at>>
    /\ op' = "pause"
    /\ result' = "Unit"
    /\ ret' = None
    /\ UNCHANGED <<stop_time, task_logs, daily_log, now, file, csv, started,
                   paused_total, started_at, last_assigned>>

\* a resume that takes a new start time even when the timer is running
Resume_Restart ==
    /\ Alive
    /\ start_time' = Some(now)
    /\ IF start_time = None /\ IsSome(paused_at)
         THEN /\ paused_total' = paused_total + DurationSince(now, Unwrap(paused_at))
              /\ paused_at' = None
         ELSE UNCHANGED <<paused_at, paused_total>>
    /\ op' = "resume"
    /\ result' = "Unit"
    /\ ret' = None
    /\ UNCHANGED <<stop_time, pause_duration, task_logs, daily_log, now, file, csv,
                   started, started_at, last_assigned>>

\* Timer::resume
Resume ==
    /\ Alive
    /\ IF start_time = None
         THEN start_time' = Some(now)
         ELSE UNCHANGED start_time
    /\ IF start_time = None /\ IsSome(paused_at)
         THEN /\ paused_total' = paused_total + DurationSince(now, Unwrap(paused_at))
              /\ paused_at' = None
         ELSE UNCHANGED <<paused_at, paused_total>>
    /\ op' = "resume"
    /\ result' = "Unit"
    /\ ret' = None
    /\ UNCHANGED <<stop_time, pause_duration, task_logs, daily_log, now, file, csv,
                   started, started_at, last_assigned>>

\* an elapsed that forgets the accumulated time while the timer runs
elapsed_WithoutAccumulator ==
    IF IsSome(start_time)
      THEN DurationSince(now, Unwrap(start_time))
      ELSE pause_duration

\* the value of Timer::elapsed(&self)
elapsed ==
    IF IsSome(start_time)
      THEN DurationSince(now, Unwrap(start_time)) + pause_duration
      ELSE pause_duration

\* a call of Timer::elapsed
Elapsed ==
    /\ Alive
    /\ op' = "elapsed"
    /\ result' = "Unit"
    /\ ret' = Some(elapsed)
    /\ UNCHANGED <<timer, task_logs, daily_log, now, file, csv, hist, last_assigned>>

\* Local::now().date_naive(): the clock stays within one day
Today == "1970-01-01"

\* the Duration daily_log holds for a date, Duration::default() when absent
DailyTotal(log, date) == IF date \in DOMAIN log THEN log[date] ELSE 0

\* stop_time.unwrap_or(SystemTime::now())
StopOrNow == IF IsSome(stop_time) THEN Unwrap(stop_time) ELSE now

\* Timer::log_daily_time; the Duration subtraction panics when it underflows
LogDailyTime ==
    /\ Alive
    /\ DailyTotal(daily_log, Today) < MaxDailyTotal
    /\ IF IsSome(start_time)
         THEN LET gross == DurationSince(StopOrNow, Unwrap(start_time))
              IN  IF gross < pause_duration
                    THEN /\ result' = "Panic"
                         /\ UNCHANGED daily_log
                    ELSE /\ result' = "Ok"
                         /\ daily_log' =
                               [date \in DOMAIN daily_log \cup {Today} |->
                                  IF date = Today
                                    THEN DailyTotal(daily_log, Today)
                                           + (gross - pause_duration)
                                    ELSE daily_log[date]]
         ELSE /\ result' = "Ok"
              /\ UNCHANGED daily_log
    /\ op' = "log_daily_time"
    /\ ret' = None
    /\ UNCHANGED <<timer, task_logs, now, file, csv, hist, last_assigned>>

\* ------------------------------------------------------------- text
\* the decimal digits, as atoms
Digit(d) == <<"0", "1", "2", "3", "4", "5", "6", "7", "8", "9">>[d + 1]
IsDigit(a) == \E d \in 0..9 : Digit(d) = a
DigitValue(a) == CHOOSE d \in 0..9 : Digit(d) = a

\* format!("{}", n) for an unsigned n: its decimal digits
RECURSIVE FmtNum(_)
FmtNum(n) == IF n < 10 THEN <<Digit(n)>> ELSE FmtNum(n \div 10) \o <<Digit(n % 10)>>

\* the value of a digit string
RECURSIVE DigitsValue(_)
DigitsValue(tok) ==
    IF tok = <<>> THEN 0
    ELSE 10 * DigitsValue(SubSeq(tok, 1, Len(tok) - 1)) + DigitValue(tok[Len(tok)])

\* str::parse::<usize>(), as an Option: Some(value) of a non-empty digit string
ParseUsize(tok) ==
    IF tok # <<>> /\ \A i \in 1..Len(tok) : IsDigit(tok[i])
      THEN Some(DigitsValue(tok))
      ELSE None

\* a word
W(w) == <<w>>
\* a line of text
Line(lead, toks) == [lead |-> lead, toks |-> toks]

\* DateTime<Utc>::to_rfc2822() of second t of the epoch's first minute
Rfc2822(t) ==
    <<W("Thu,"), <<"0", "1">>, W("Jan"), <<"1", "9", "7", "0">>,
      <<"00:00:", Digit(t \div 10), Digit(t % 10)>>, W("+0000")>>

\* "-".repeat(width)
Dashes(width) == [i \in 1..width |-> "-"]

\* Timer::get_terminal_width, columns being the Option of COLUMNS
get_terminal_width(columns) ==
    IF IsSome(columns) /\ IsSome(ParseUsize(Unwrap(columns)))
      THEN Unwrap(ParseUsize(Unwrap(columns)))
      ELSE 80

\* line.trim().starts_with("----")
IsDelimiter(line) ==
    /\ Len(line.toks) >= 1
    /\ Len(line.toks[1]) >= 4
    /\ \A i \in 1..4 : line.toks[1][i] = "-"

\* line.trim().starts_with(<first> <second>), two words one space apart
TrimStartsWith(line, first, second) ==
    /\ Len(line.toks) >= 2
    /\ line.toks[1] = W(first)
    /\ line.toks[2][1] = second

\* line.trim()[n..].trim(), as tokens, n being the length of the two-word
\* prefix plus skip: "Log Entry:" is cut at 10 (skip 0), "Start Time:" at 12
\* and "Elapsed Time:" at 14 (skip 1, the space that follows the colon, or
\* the first character glued to it).  A line that ends with the colon is
\* shorter than n when skip is 1; no line of this model does.
AfterPrefix(line, skip) ==
    LET glued == Tail(line.toks[2])
        kept == IF glued = <<>> THEN <<>> ELSE SubSeq(glued, 1 + skip, Len(glued))
    IN  (IF kept = <<>> THEN <<>> ELSE <<kept>>) \o SubSeq(line.toks, 3, Len(line.toks))

\* ------------------------------------------------------------- inputs
\* the values of the COLUMNS variable: unset, a narrow terminal, not a number
ColumnsValues == {None, Some(<<"3">>), Some(W("wide"))}

\* task descriptions typed by the user (data): an ordinary word
PlainDescriptions == {Line(0, <<W("a")>>)}

\* ... and a description that reads like an entry header
Descriptions == PlainDescriptions \cup {Line(0, <<W("Log"), W("Entry:"), <<"1">>>>)}

\* ... and a description that reads like an entry header without a number
MalformedDescriptions == PlainDescriptions \cup {Line(0, <<W("Log"), W("Entry:"), W("x")>>)}

\* ------------------------------------------------------------- log file
\* the lines Timer::log_task appends for an entry
EntryLines(index, datetime, data, duration, width) ==
    <<Line(0, <<>>),
      Line(1, <<W("Log"), W("Entry:"), FmtNum(index)>>),
      Line(1, <<W("Start"), W("Time:")>> \o Rfc2822(datetime)),
      Line(1 + data.lead, data.toks),
      Line(1, <<W("Elapsed"), W("Time:"), FmtNum(duration), W("seconds")>>),
      Line(0, IF width = 0 THEN <<>> ELSE <<Dashes(width)>>)>>

\* the index a line contributes to the scan of Timer::log_task: the line
\* starts with " Log Entry: " and its last word parses
ScannedIndex(line) ==
    IF /\ line.lead = 1
       /\ Len(line.toks) >= 3
       /\ line.toks[1] = W("Log")
       /\ line.toks[2] = W("Entry:")
      THEN ParseUsize(line.toks[Len(line.toks)])
      ELSE None

\* the highest index the scan of Timer::log_task finds in the first n lines
RECURSIVE HighestIndex(_, _)
HighestIndex(lines, n) ==
    IF n = 0 THEN 0
    ELSE LET rest == HighestIndex(lines, n - 1)
             found == ScannedIndex(lines[n])
         IN  IF IsSome(found) /\ Unwrap(found) > rest THEN Unwrap(found) ELSE rest

\* current_index of Timer::log_task: 0 when the file cannot be opened
current_index == IF file_exists THEN HighestIndex(file_lines, Len(file_lines)) ELSE 0

\* the time when the program started: the clock of the initial state
program_start_time == 0

\* what Timer::log_task(data, output_file, program_start_time) does to the
\* task logs and to the file, columns being the Option of COLUMNS
LogTaskWrites(data, columns) ==
    LET datetime == program_start_time
        duration == elapsed
        index == current_index + 1
    IN  /\ task_logs' = Append(task_logs,
               [data |-> data, start_time |-> datetime, duration |-> duration])
        /\ file_exists' = TRUE
        /\ file_lines' = (IF file_exists THEN file_lines ELSE <<>>)
               \o EntryLines(index, datetime, data, duration,
                             get_terminal_width(columns))
        /\ last_assigned' = index

\* Timer::log_task(data, output_file, program_start_time), data among descriptions
LogTaskOf(descriptions) ==
    /\ Alive
    /\ Len(task_logs) < MaxLogTasks
    /\ \E data \in descriptions, columns \in ColumnsValues :
         /\ LogTaskWrites(data, columns)
         /\ ret' = Some(current_index + 1)
    /\ op' = "log_task"
    /\ result' = "Ok"
    /\ UNCHANGED <<timer, daily_log, now, csv, hist>>

\* a line csv::Reader does not skip: it holds at least one character
NonEmpty(line) == line.lead > 0 \/ line.toks # <<>>

\* the number of non-empty lines among the first n
RECURSIVE NonEmptyLines(_, _)
NonEmptyLines(lines, n) ==
    IF n = 0 THEN 0
    ELSE NonEmptyLines(lines, n - 1) + (IF NonEmpty(lines[n]) THEN 1 ELSE 0)

\* csv::Reader::from_reader(file).records().count(): every non-empty line is
\* an item of the iterator, be it a record or an error for its number of
\* fields, but the first, which the reader takes for the header
CsvRecordCount(lines) ==
    LET n == NonEmptyLines(lines, Len(lines))
    IN  IF n = 0 THEN 0 ELSE n - 1

\* start_timer(timer, data, output_file): log_task, then the number of CSV
\* records of the file as the index reported
StartTimer ==
    /\ Alive
    /\ Len(task_logs) < MaxLogTasks
    /\ \E data \in PlainDescriptions, columns \in ColumnsValues :
         LogTaskWrites(data, columns)
    /\ ret' = Some(CsvRecordCount(file_lines'))
    /\ op' = "start_timer"
    /\ result' = "Ok"
    /\ UNCHANGED <<timer, daily_log, now, csv, hist>>

LogTask == LogTaskOf(Descriptions)

\* log_task called with a description whose header-like line has no number
MalformedLogTask == LogTaskOf(MalformedDescriptions)

\* log_task called with ordinary descriptions only
PlainLogTask == LogTaskOf(PlainDescriptions)

\* updated_logs of delete_log_entry after the first n lines, with delete_mode
RECURSIVE DeleteScan(_, _, _)
DeleteScan(lines, n, index) ==
    IF n = 0 THEN [updated_logs |-> <<>>, delete_mode |-> FALSE]
    ELSE LET before == DeleteScan(lines, n - 1, index)
             line == lines[n]
         IN  IF before.delete_mode
               THEN [before EXCEPT !.delete_mode = ~IsDelimiter(line)]
               ELSE IF line.toks = <<W("Log"), W("Entry:"), FmtNum(index)>>
                      THEN [before EXCEPT !.delete_mode = TRUE]
                      ELSE [before EXCEPT !.updated_logs = Append(@, line)]

\* the indices a user passes to --delete-log
DeleteIndices == 0..(MaxLogTasks + 1)

\* delete_log_entry(log_file, index) without a failure of the file system:
\* File::open fails on a missing file; the caller, main, reports the deletion
DeleteLogEntryAt(index) ==
    /\ Alive
    /\ IF file_exists
         THEN /\ file_lines' = DeleteScan(file_lines, Len(file_lines), index).updated_logs
              /\ result' = "Ok"
         ELSE /\ UNCHANGED file_lines
              /\ result' = "Err"
    /\ op' = "delete_log_entry"
    /\ ret' = None
    /\ UNCHANGED <<timer, task_logs, daily_log, now, file_exists, csv, hist,
                   last_assigned>>

DeleteLogEntry == \E index \in DeleteIndices : DeleteLogEntryAt(index)

\* the steps of delete_log_entry at which the file system can fail
IoSteps == {"read", "truncate", "write"}

\* delete_log_entry(log_file, index) returning an I/O error: when the file
\* cannot be opened or read, or cannot be opened for truncation, it is as it
\* was; when a write fails, the file has been truncated and holds the lines
\* written before the failure
DeleteLogEntryIoErrorAt(index) ==
    /\ Alive
    /\ file_exists
    /\ \E step \in IoSteps :
         LET updated_logs == DeleteScan(file_lines, Len(file_lines), index).updated_logs
         IN  IF step = "write"
               THEN \E written \in 0..(Len(updated_logs) - 1) :
                      file_lines' = SubSeq(updated_logs, 1, written)
               ELSE UNCHANGED file_lines
    /\ op' = "delete_log_entry"
    /\ result' = "Err"
    /\ ret' = None
    /\ UNCHANGED <<timer, task_logs, daily_log, now, file_exists, csv, hist,
                   last_assigned>>

DeleteLogEntryIoError == \E index \in DeleteIndices : DeleteLogEntryIoErrorAt(index)

\* LogEntry with nothing read yet
NewEntry(index) ==
    [index |-> index, start_time |-> <<>>, message |-> <<>>, elapsed_time |-> <<>>]

\* line.trim()[10..].trim().parse::<usize>() of a "Log Entry:" line
ParsedIndex(line) ==
    LET after == AfterPrefix(line, 0)
    IN  IF Len(after) = 1 THEN ParseUsize(after[1]) ELSE None

\* the index read_logs_from_file takes from a "Log Entry:" line: unwrap_or(0)
ReadIndex(line) == IF IsSome(ParsedIndex(line)) THEN Unwrap(ParsedIndex(line)) ELSE 0

\* entries and current_entry of read_logs_from_file after the first n lines
RECURSIVE ReadScan(_, _)
ReadScan(lines, n) ==
    IF n = 0 THEN [entries |-> <<>>, current_entry |-> None]
    ELSE LET before == ReadScan(lines, n - 1)
             line == lines[n]
             cur == before.current_entry
         IN  IF TrimStartsWith(line, "Log", "Entry:")
               THEN [entries |-> before.entries \o cur,
                     current_entry |-> Some(NewEntry(ReadIndex(line)))]
             ELSE IF cur = None THEN before
             ELSE IF TrimStartsWith(line, "Start", "Time:")
               THEN [before EXCEPT !.current_entry =
                        Some([Unwrap(cur) EXCEPT !.start_time = AfterPrefix(line, 1)])]
             ELSE IF TrimStartsWith(line, "Elapsed", "Time:")
               THEN [before EXCEPT !.current_entry =
                        Some([Unwrap(cur) EXCEPT !.elapsed_time = AfterPrefix(line, 1)])]
             ELSE IF ~IsDelimiter(line)
               THEN [before EXCEPT !.current_entry =
                        Some([Unwrap(cur) EXCEPT !.message = Append(@, line.toks)])]
             ELSE before

\* read_logs_from_file on a file that exists
read_logs_from_file(lines) ==
    LET scan == ReadScan(lines, Len(lines))
        last == scan.current_entry
    IN  IF IsSome(last) /\ (Unwrap(last).start_time # <<>> \/ Unwrap(last).message # <<>>
                                \/ Unwrap(last).elapsed_time # <<>>)
          THEN scan.entries \o last
          ELSE scan.entries

\* read_logs_from_file(file_path): File::open fails on a missing file
ReadLogs ==
    /\ Alive
    /\ op' = "read_logs_from_file"
    /\ IF file_exists
         THEN /\ result' = "Ok"
              /\ ret' = Some(read_logs_from_file(file_lines))
         ELSE /\ result' = "Err"
              /\ ret' = None
    /\ UNCHANGED <<timer, task_logs, daily_log, now, file, csv, hist, last_assigned>>

\* ------------------------------------------------------------- timer file
\* DateTime::parse_from_rfc2822, as an Option, over the stamps of this model
ParseRfc2822(field) ==
    IF \E t \in 0..59 : field = Rfc2822(t)
      THEN Some(CHOOSE t \in 0..59 : field = Rfc2822(t))
      ELSE None

\* a row of the file stop_timer reads: index, start time, description,
\* elapsed seconds, paused seconds
TimerRow(index, start, paused) == <<<<index>>, start, <<W("a")>>, <<<<"0">>>>, <<paused>>>>

\* the rows after the header line that the file may hold: a well-formed one,
\* one whose paused seconds are not a number, one whose start time is not a
\* date, and one whose index is not a number
TimerRows ==
    {TimerRow(<<"1">>, Rfc2822(0), <<"2">>),
     TimerRow(<<"1">>, Rfc2822(0), W("x")),
     TimerRow(<<"1">>, <<W("now")>>, <<"2">>),
     TimerRow(W("x"), Rfc2822(0), <<"2">>)}

\* the files: no row, one row, two rows
TimerFiles ==
    {<<>>} \cup {<<r>> : r \in TimerRows} \cup {<<r, q>> : r \in TimerRows, q \in TimerRows}

\* the rows the loop of read_start_time_and_paused_duration_from_csv stops at
MatchingRows(records, index) ==
    {i \in 1..Len(records) :
        /\ Len(records[i]) >= 5
        /\ ParseUsize(records[i][1][1]) = Some(index)}

\* read_start_time_and_paused_duration_from_csv(output_file, index), records
\* being the rows of output_file
ReadStartTimeAndPausedDurationOf(records, index) ==
    /\ Alive
    /\ op' = "read_start_time_and_paused_duration_from_csv"
    /\ IF MatchingRows(records, index) = {}
         THEN /\ result' = "NotFound"
              /\ ret' = None
         ELSE LET first == CHOOSE i \in MatchingRows(records, index) :
                              \A j \in MatchingRows(records, index) : i <= j
                  record == records[first]
                  started_on == ParseRfc2822(record[2])
                  parsed == ParseUsize(record[5][1])
                  paused_duration == IF IsSome(parsed) THEN Unwrap(parsed) ELSE 0
              IN  IF IsSome(started_on)
                    THEN /\ result' = "Ok"
                         /\ ret' = Some(<<Unwrap(started_on), paused_duration>>)
                    ELSE /\ result' = "InvalidData"
                         /\ ret' = None
    /\ UNCHANGED <<timer, task_logs, daily_log, now, file, csv, hist, last_assigned>>

\* the indices stop_timer looks for
TimerIndices == 1..2

ReadStartTimeAndPausedDuration ==
    \E records \in TimerFiles, index \in TimerIndices :
        ReadStartTimeAndPausedDurationOf(records, index)

\* ------------------------------------------------------------- CSV export
\* "Title,Description,Start Time,Duration (secs)"
CsvHeader == Line(0, <<W("Title,Description,Start"), W("Time,Duration"), W("(secs)")>>)

\* format!("{},{},{}", log.data, log.start_time.to_rfc2822(), log.duration.as_secs())
CsvRow(log) ==
    LET words == log.data.toks
        stamp == Rfc2822(log.start_time)
    IN  Line(log.data.lead,
             SubSeq(words, 1, Len(words) - 1)
               \o <<words[Len(words)] \o <<",">> \o stamp[1]>>
               \o SubSeq(stamp, 2, Len(stamp) - 1)
               \o <<stamp[Len(stamp)] \o <<",">> \o FmtNum(log.duration)>>)

\* Timer::export_logs_to_csv, that is TaskLog::export_to_csv(&self.task_logs, ..)
ExportLogsToCsv ==
    /\ Alive
    /\ Len(csv_lines) < MaxCsvLines
    /\ csv_exists' = TRUE
    /\ csv_lines' = csv_lines \o <<CsvHeader>>
                       \o [i \in 1..Len(task_logs) |-> CsvRow(task_logs[i])]
    /\ op' = "export_logs_to_csv"
    /\ result' = "Ok"
    /\ ret' = None
    /\ UNCHANGED <<timer, task_logs, daily_log, now, file, hist, last_assigned>>

TimerNext == Tick \/ Start \/ Stop \/ Pause \/ Resume \/ Elapsed \/ LogDailyTime

TimerSpec == Init /\ [][TimerNext]_vars

LogNext == LogTask \/ DeleteLogEntry \/ Start \/ Tick

LogSpec == Init /\ [][LogNext]_vars

\* the log file under ordinary descriptions only
PlainLogNext == PlainLogTask \/ DeleteLogEntry \/ Start \/ Tick

PlainLogSpec == Init /\ [][PlainLogNext]_vars

\* the log file on a file system that can fail during a delete
FaultLogNext == PlainLogTask \/ DeleteLogEntry \/ DeleteLogEntryIoError

FaultLogSpec == Init /\ [][FaultLogNext]_vars

\* the readers of the log file and of the timer file
DecodeNext == MalformedLogTask \/ ReadLogs \/ ReadStartTimeAndPausedDuration

DecodeSpec == Init /\ [][DecodeNext]_vars

\* the commands of main that add and delete entries
MainNext == StartTimer \/ DeleteLogEntry \/ Tick

MainSpec == Init /\ [][MainNext]_vars

\* exports of the task logs of this process
ExportNext == PlainLogTask \/ ExportLogsToCsv \/ Start \/ Tick

ExportSpec == Init /\ [][ExportNext]_vars

\* every operation; the timer and the log file are explored separately by
\* TimerSpec and LogSpec, whose state spaces are small enough to exhaust
Next ==
    \/ TimerNext \/ LogTask \/ DeleteLogEntry \/ DeleteLogEntryIoError
    \/ ReadLogs \/ ReadStartTimeAndPausedDuration \/ ExportLogsToCsv \/ StartTimer

Spec == Init /\ [][Next]_vars

\* ------------------------------------------------------------- Timer claims
\* the timer is paused: a pause took effect and no resume or start since
IsPaused == IsSome(paused_at)

\* C1: once stop has been performed, every later pause, resume or stop is
\* rejected with AlreadyStopped and changes none of start_time, stop_time,
\* pause_duration.
C1_StopIsTerminal ==
    [][(IsSome(stop_time) /\ (Pause \/ Resume \/ Stop))
         => (result' = "AlreadyStopped" /\ UNCHANGED timer)]_vars

\* C2: pause on a paused timer fails with AlreadyPaused and resume on a timer
\* that is not paused fails with NotPaused.
C2_InvalidTransitionsFail ==
    [][/\ (Pause /\ IsPaused) => result' = "AlreadyPaused"
       /\ (Resume /\ ~IsPaused) => result' = "NotPaused"]_vars

\* C3: a timer becomes Running (start_time set) only by start, or by resume
\* from the Paused state; resume on a never-started timer does not.
C3_RunningOnlyByStartOrResumeFromPaused ==
    [][(start_time = None /\ IsSome(start_time'))
         => (Start \/ (Resume /\ IsPaused))]_vars

\* C4: after start, pause_duration equals the sum over the completed
\* pause/resume cycles of (resume time - pause time).
C4_AccumulatorIsPausedTime == started => pause_duration = paused_total

\* C5: no pause or resume call decreases pause_duration.
C5_PauseDurationMonotonic ==
    [][(Pause \/ Resume) => pause_duration' >= pause_duration]_vars

\* a second pause has added a second running interval to the accumulator
C5_Witness ==
    op = "pause" /\ IsPaused /\ paused_total > 0 /\ pause_duration >= 2

\* C6: elapsed changes nothing and, on a started timer, returns
\* pause_duration when paused and (now - start_time) - pause_duration otherwise.
C6_ElapsedValue ==
    [][(Elapsed /\ started)
         => /\ UNCHANGED timer
            /\ ret' = Some(IF IsPaused \/ start_time = None
                             THEN pause_duration
                             ELSE (now - Unwrap(start_time)) - pause_duration)]_vars

\* the time the task has been running since start: from the start to the
\* stop (or to now), less the completed pauses and the pause in effect
RunningTime ==
    DurationSince(StopOrNow, Unwrap(started_at))
      - (paused_total
           + (IF IsPaused THEN DurationSince(StopOrNow, Unwrap(paused_at)) ELSE 0))

\* C16: after start and pauses, resumes and a final stop, log_daily_time adds
\* to today's entry the time from the start to the stop (or to now) minus the
\* time spent paused.
C16_DailyTimeIsRunningTime ==
    [][(LogDailyTime /\ started /\ (stop_time = None \/ op = "stop"))
         => /\ result' = "Ok"
            /\ DailyTotal(daily_log', Today)
                  = DailyTotal(daily_log, Today) + RunningTime]_vars

\* C18: in every reachable timer state the subtraction of log_daily_time,
\* (stop_or_now - start_time) - pause_duration, does not underflow.
C18_NoUnderflow ==
    IsSome(start_time)
      => DurationSince(StopOrNow, Unwrap(start_time)) >= pause_duration

\* ------------------------------------------------------------- log claims
\* the records present in the file, as read_logs_from_file returns them
Records == IF file_exists THEN read_logs_from_file(file_lines) ELSE <<>>
RecordsAfter(lines) == read_logs_from_file(lines)

\* C7: after any appends and deletes the indices of the records present are
\* exactly 1..n, n the number of records, with no gaps and no duplicates.
C7_IndexContiguity ==
    /\ {Records[i].index : i \in 1..Len(Records)} = 1..Len(Records)
    /\ \A i, j \in 1..Len(Records) : Records[i].index = Records[j].index => i = j

\* C8: after any appends and deletes starting from a missing file, no two
\* records present in the file carry the same index.
C8_IndexUniqueness ==
    \A i, j \in 1..Len(Records) : Records[i].index = Records[j].index => i = j

\* C9: append assigns (number of records currently in the file) + 1.
C9_AppendAssignsCountPlusOne ==
    [][LogTask => ret' = Some(Len(Records) + 1)]_vars

\* C10: log_task of a freshly created timer on a file that is missing or
\* holds no records leaves the file existing with exactly one record, of
\* index 1 and elapsed time 0.
C10_AppendToMissingOrEmptyFile ==
    [][(LogTask /\ Len(Records) = 0 /\ timer = <<None, None, 0>>)
         => /\ file_exists'
            /\ Len(RecordsAfter(file_lines')) = 1
            /\ RecordsAfter(file_lines')[1].index = 1
            /\ RecordsAfter(file_lines')[1].elapsed_time = <<FmtNum(0), W("seconds")>>]_vars


\* the records of recs whose index is not index
RemoveIndex(recs, index) == SelectSeq(recs, LAMBDA r : r.index # index)

\* C11: delete_log_entry(file, i) removes the record of index i and nothing
\* else: the other records are read back afterwards in the same order, with
\* the same index, start time, message and elapsed time.
C11_DeleteRemovesOnlyThatRecord ==
    [][\A i \in DeleteIndices :
         (DeleteLogEntryAt(i) /\ file_exists)
            => RecordsAfter(file_lines') = RemoveIndex(Records, i)]_vars

\* C12: delete of an index that no record of the file carries fails with
\* NotFound.
C12_DeleteOfAbsentIndexFails ==
    [][\A i \in DeleteIndices :
         (/\ DeleteLogEntryAt(i)
          /\ file_exists
          /\ \A k \in 1..Len(Records) : Records[k].index # i)
            => result' = "NotFound"]_vars

\* the entry that reads back the values of the last log_task: its index, the
\* start time as written, the description as the only line of the message, and
\* the elapsed seconds with their unit
WrittenEntry ==
    LET written == task_logs'[Len(task_logs')]
    IN  [index |-> Unwrap(ret'),
         start_time |-> Rfc2822(written.start_time),
         message |-> <<written.data.toks>>,
         elapsed_time |-> <<FmtNum(written.duration), W("seconds")>>]

\* C13: the record log_task writes is read back by read_logs_from_file with
\* the index, start time, message and elapsed time written, and the records
\* that precede it are read back as they were before it followed them.
C13_RoundTrip ==
    [][LogTask => RecordsAfter(file_lines') = Records \o <<WrittenEntry>>]_vars

\* C19: the indices assigned by successive appends are strictly increasing,
\* whatever deletes come between them.
C19_AssignedIndicesIncrease ==
    [][LogTask => Unwrap(ret') > last_assigned]_vars


\* C17: after any number of export_to_csv calls on one output file, the file
\* holds exactly one header row and it is the first line.
C17_OneCsvHeader ==
    (csv_exists /\ csv_lines # <<>>)
      => /\ csv_lines[1] = CsvHeader
         /\ \A i \in 2..Len(csv_lines) : csv_lines[i] # CsvHeader


\* C15: when delete_log_entry returns an I/O error the file holds either its
\* complete content of before the call or the complete content the delete
\* was to leave.
C15_FailedRewriteKeepsLog ==
    [][\A i \in DeleteIndices :
         DeleteLogEntryIoErrorAt(i)
            => \/ file_lines' = file_lines
               \/ file_lines' = DeleteScan(file_lines, Len(file_lines), i).updated_logs]_vars


\* a "Log Entry:" line of the file whose index is not a number
HasMalformedHeader ==
    \E n \in 1..Len(file_lines) :
        /\ TrimStartsWith(file_lines[n], "Log", "Entry:")
        /\ ParsedIndex(file_lines[n]) = None

\* the row read for the index has paused seconds that are not a number
HasMalformedPaused(records, index) ==
    \E i \in MatchingRows(records, index) :
        /\ \A j \in MatchingRows(records, index) : i <= j
        /\ IsSome(ParseRfc2822(records[i][2]))
        /\ ParseUsize(records[i][5][1]) = None

\* C14: reading a record whose index is not a number, or whose paused
\* duration is not a number, fails with an error; no default takes the place
\* of the field.
C14_NoDefaultOnDecode ==
    [][/\ (ReadLogs /\ file_exists /\ HasMalformedHeader) => result' # "Ok"
       /\ \A records \in TimerFiles, index \in TimerIndices :
            (ReadStartTimeAndPausedDurationOf(records, index)
               /\ HasMalformedPaused(records, index)) => result' # "Ok"]_vars


\* C20: the index start_timer reports to the user is the index stored in the
\* record log_task has just written, whatever appends and deletes came
\* before.
C20_ReportedIndexIsStoredIndex ==
    [][StartTimer => ret' = Some(current_index + 1)]_vars


\* the total length of the intervals during which the timer was running:
\* the time since the start less the completed pauses and the pause in effect
RunningIntervals ==
    (now - Unwrap(started_at))
      - (paused_total + (IF IsPaused THEN now - Unwrap(paused_at) ELSE 0))

C22_SeparatorRecognised ==
    [][PlainLogTask => IsDelimiter(file_lines'[Len(file_lines')])]_vars


\* C23: in every timer state reached by start, pause, resume and stop, when
\* start_time and stop_time are both set, stop_time is not earlier than
\* start_time.
C23_StopNotBeforeStart ==
    (IsSome(start_time) /\ IsSome(stop_time)) => Unwrap(stop_time) >= Unwrap(start_time)


\* C24: pause on a timer that is not running and resume on a running timer
\* leave start_time, stop_time and pause_duration unchanged; so a pause right
\* after a pause, and a resume right after a resume, change nothing.
C24_RedundantCallsAreNoOps ==
    [][/\ (Pause /\ start_time = None) => UNCHANGED timer
       /\ (Resume /\ IsSome(start_time)) => UNCHANGED timer
       /\ (Pause /\ op = "pause") => UNCHANGED timer
       /\ (Resume /\ op = "resume") => UNCHANGED timer]_vars

\* pause has returned on a timer that was not running and had never been
\* paused: no pause is in effect although the last call was pause
C24_Witness ==
    /\ op = "pause"
    /\ start_time = None
    /\ paused_at = None
    /\ now > 0


\* C25: delete_log_entry with an index that no record of the file carries
\* leaves the file as it was: the same lines in the same order.
C25_DeleteOfAbsentIndexKeepsLog ==
    [][\A i \in DeleteIndices :
         (DeleteLogEntryAt(i) /\ file_exists
            /\ \A k \in 1..Len(Records) : Records[k].index # i)
           => file_lines' = file_lines]_vars

=============================================================================
